---- MODULE Spec2Model ----
(***************************************************************************)
(* Rock-Paper-Scissors-Plus referee: the GameState record (state.py), the  *)
(* three tools validate_move, resolve_round and update_game_state          *)
(* (tools.py) and the orchestrating GameRefereeAgent (agent.py).           *)
(*                                                                         *)
(* Python strings that the code takes apart (the raw user input) are       *)
(* sequences of one-character strings; strings it only compares or builds  *)
(* are TLA+ strings.  None is the sentinel string NoneValue.               *)
(***************************************************************************)
EXTENDS Integers, Sequences, FiniteSets, TLC

VARIABLES
    game_state,     \* GameRefereeAgent.game_state
    game_started,   \* GameRefereeAgent.game_started
    response,       \* what the last agent call returned
    last_op,        \* the last agent call made: "init", "start_game", "process_turn"
    last_input,     \* the raw input of the last process_turn call
    turn_calls,     \* process_turn calls made since the last start_game
    tools_invoked,  \* the tools the last process_turn call invoked, in order
    called_from,    \* the orchestrator's phase when the last agent call was made
    main,           \* main.py: its position, the last line read and what it did
    heap,           \* the objects update_game_state reads and writes, by identity
    state,          \* the GameState a tool is applied to directly (as the tests do)
    n_applied,      \* update_game_state calls applied to `state` since it was fresh
    call            \* the last direct call of validate_move or resolve_round

vars == <<game_state, game_started, response, last_op, last_input, turn_calls,
          tools_invoked, called_from, main, heap, state, n_applied, call>>

agent_vars == <<game_state, game_started, response, last_op, last_input,
                turn_calls, tools_invoked, called_from>>

harness_vars == <<state, n_applied, call, heap>>

-----------------------------------------------------------------------------
(* Bounds of the model *)

\* process_turn calls the model follows after one start_game (or before the first)
MaxTurnCalls == 5

\* update_game_state calls the direct harness applies to a fresh state
MaxApply == 4

-----------------------------------------------------------------------------
(* Python values *)

NoneValue == "<None>"

\* str.strip() removes these from both ends
Whitespace == {" ", "\t", "\n"}

UpperChars ==
    <<"A","B","C","D","E","F","G","H","I","J","K","L","M",
      "N","O","P","Q","R","S","T","U","V","W","X","Y","Z">>

LowerChars ==
    <<"a","b","c","d","e","f","g","h","i","j","k","l","m",
      "n","o","p","q","r","s","t","u","v","w","x","y","z">>

\* str.lower() on one character
lower_char(c) ==
    IF \E i \in 1..Len(UpperChars) : UpperChars[i] = c
    THEN LowerChars[CHOOSE i \in 1..Len(UpperChars) : UpperChars[i] = c]
    ELSE c

\* str.lower()
str_lower(s) == [i \in 1..Len(s) |-> lower_char(s[i])]

RECURSIVE lstrip(_)
lstrip(s) == IF s # <<>> /\ Head(s) \in Whitespace THEN lstrip(Tail(s)) ELSE s

RECURSIVE rstrip(_)
rstrip(s) ==
    IF s # <<>> /\ s[Len(s)] \in Whitespace
    THEN rstrip(SubSeq(s, 1, Len(s) - 1))
    ELSE s

\* str.strip()
str_strip(s) == rstrip(lstrip(s))

\* the Python string a sequence of characters spells
RECURSIVE text(_)
text(s) == IF s = <<>> THEN "" ELSE Head(s) \o text(Tail(s))

\* str.capitalize() on the keys of win_conditions
capitalize(m) ==
    CASE m = "rock" -> "Rock"
      [] m = "scissors" -> "Scissors"
      [] m = "paper" -> "Paper"
      [] OTHER -> m

-----------------------------------------------------------------------------
(* Inputs *)

\* the raw input lines the model draws from
RawInputs ==
    { <<"r","o","c","k">>,
      <<"P","A","P","E","R">>,
      <<" "," ","S","c","i","s","s","o","r","s"," "," ">>,
      <<"b","o","m","b">>,
      <<"B","O","M","B"," ">>,
      <<"\t","R","o","c","k","\n">>,
      <<"l","a","s","e","r">>,
      <<"r","o"," ","c","k">>,
      <<"r","o","c","k","s">>,
      <<"I","N","V","A","L","I","D">>,
      <<" "," ">>,
      <<>> }

-----------------------------------------------------------------------------
(* state.py *)

max_rounds == 3

GameState ==
    [round |-> 1,
     max_rounds |-> max_rounds,
     score |-> [user |-> 0, bot |-> 0],
     bomb_used |-> [user |-> FALSE, bot |-> FALSE],
     history |-> <<>>,
     game_over |-> FALSE]

initialize_game_state == GameState

-----------------------------------------------------------------------------
(* tools.py *)

VALID_MOVES == {"rock", "paper", "scissors", "bomb"}

\* validate_move without the bomb usage constraint
validate_move_no_bomb_check(move, gs) ==
    LET normalized == text(str_lower(str_strip(move))) IN
    IF normalized \notin VALID_MOVES
    THEN [valid |-> FALSE,
          normalized_move |-> NoneValue,
          error |-> "Invalid move '" \o text(move)
                    \o "'. Valid moves: rock, paper, scissors, bomb"]
    ELSE [valid |-> TRUE, normalized_move |-> normalized, error |-> NoneValue]

\* validate_move that lowercases but does not strip
validate_move_no_strip(move, gs) ==
    LET normalized == text(str_lower(move)) IN
    IF normalized \notin VALID_MOVES
    THEN [valid |-> FALSE,
          normalized_move |-> NoneValue,
          error |-> "Invalid move '" \o text(move)
                    \o "'. Valid moves: rock, paper, scissors, bomb"]
    ELSE IF normalized = "bomb" /\ gs.bomb_used.user
    THEN [valid |-> FALSE,
          normalized_move |-> NoneValue,
          error |-> "You have already used your bomb! Choose: rock, paper, or scissors"]
    ELSE [valid |-> TRUE, normalized_move |-> normalized, error |-> NoneValue]

validate_move(move, gs) ==
    LET normalized == text(str_lower(str_strip(move))) IN
    IF normalized \notin VALID_MOVES
    THEN [valid |-> FALSE,
          normalized_move |-> NoneValue,
          error |-> "Invalid move '" \o text(move)
                    \o "'. Valid moves: rock, paper, scissors, bomb"]
    ELSE IF normalized = "bomb" /\ gs.bomb_used.user
    THEN [valid |-> FALSE,
          normalized_move |-> NoneValue,
          error |-> "You have already used your bomb! Choose: rock, paper, or scissors"]
    ELSE [valid |-> TRUE, normalized_move |-> normalized, error |-> NoneValue]

win_conditions == [rock |-> "scissors", scissors |-> "paper", paper |-> "rock"]

\* resolve_round without its first rule: a bomb wins even against a bomb
resolve_round_no_double_bomb(user_move, bot_move) ==
    IF user_move = "bomb"
    THEN [winner |-> "user", reason |-> "Bomb beats everything!"]
    ELSE IF bot_move = "bomb"
    THEN [winner |-> "bot", reason |-> "Bot's bomb beats everything!"]
    ELSE IF user_move = bot_move
    THEN [winner |-> "draw", reason |-> "Both played " \o user_move]
    ELSE IF win_conditions[user_move] = bot_move
    THEN [winner |-> "user",
          reason |-> capitalize(user_move) \o " beats " \o bot_move]
    ELSE [winner |-> "bot",
          reason |-> capitalize(bot_move) \o " beats " \o user_move]

\* resolve_round with the win_conditions entry of paper pointing at scissors
resolve_round_bad_table(user_move, bot_move) ==
    LET table == [rock |-> "scissors", scissors |-> "paper", paper |-> "scissors"] IN
    IF user_move = "bomb" /\ bot_move = "bomb"
    THEN [winner |-> "draw", reason |-> "Both players used bomb - it's a draw!"]
    ELSE IF user_move = "bomb"
    THEN [winner |-> "user", reason |-> "Bomb beats everything!"]
    ELSE IF bot_move = "bomb"
    THEN [winner |-> "bot", reason |-> "Bot's bomb beats everything!"]
    ELSE IF user_move = bot_move
    THEN [winner |-> "draw", reason |-> "Both played " \o user_move]
    ELSE IF table[user_move] = bot_move
    THEN [winner |-> "user",
          reason |-> capitalize(user_move) \o " beats " \o bot_move]
    ELSE [winner |-> "bot",
          reason |-> capitalize(bot_move) \o " beats " \o user_move]

resolve_round(user_move, bot_move) ==
    IF user_move = "bomb" /\ bot_move = "bomb"
    THEN [winner |-> "draw", reason |-> "Both players used bomb - it's a draw!"]
    ELSE IF user_move = "bomb"
    THEN [winner |-> "user", reason |-> "Bomb beats everything!"]
    ELSE IF bot_move = "bomb"
    THEN [winner |-> "bot", reason |-> "Bot's bomb beats everything!"]
    ELSE IF user_move = bot_move
    THEN [winner |-> "draw", reason |-> "Both played " \o user_move]
    ELSE IF win_conditions[user_move] = bot_move
    THEN [winner |-> "user",
          reason |-> capitalize(user_move) \o " beats " \o bot_move]
    ELSE [winner |-> "bot",
          reason |-> capitalize(bot_move) \o " beats " \o user_move]

\* the history record numbered with the round after the increment
history_record_next_round(gs, user_move, bot_move, round_result) ==
    [round |-> gs.round + 1,
     user_move |-> IF user_move # NoneValue THEN user_move ELSE "INVALID",
     bot_move |-> bot_move,
     winner |-> round_result.winner,
     reason |-> round_result.reason]

\* the record update_game_state appends to history
history_record(gs, user_move, bot_move, round_result) ==
    [round |-> gs.round,
     user_move |-> IF user_move # NoneValue THEN user_move ELSE "INVALID",
     bot_move |-> bot_move,
     winner |-> round_result.winner,
     reason |-> round_result.reason]

\* the scores with else for elif: a draw is credited to the bot
new_score_draw_to_bot(gs, round_result) ==
    IF round_result.winner = "user"
    THEN [gs.score EXCEPT !.user = @ + 1]
    ELSE [gs.score EXCEPT !.bot = @ + 1]

\* the scores after update_game_state
new_score(gs, round_result) ==
    IF round_result.winner = "user"
    THEN [gs.score EXCEPT !.user = @ + 1]
    ELSE IF round_result.winner = "bot"
    THEN [gs.score EXCEPT !.bot = @ + 1]
    ELSE gs.score

\* the bomb flags with the two sides exchanged
new_bomb_used_swapped(gs, user_move, bot_move) ==
    [user |-> IF bot_move = "bomb" THEN TRUE ELSE gs.bomb_used.user,
     bot |-> IF user_move = "bomb" THEN TRUE ELSE gs.bomb_used.bot]

\* the bomb flags after update_game_state
new_bomb_used(gs, user_move, bot_move) ==
    [user |-> IF user_move = "bomb" THEN TRUE ELSE gs.bomb_used.user,
     bot |-> IF bot_move = "bomb" THEN TRUE ELSE gs.bomb_used.bot]

\* update_game_state ending the game one round early (>= for >)
update_game_state_early_over(gs, user_move, bot_move, round_result) ==
    [round |-> gs.round + 1,
     max_rounds |-> gs.max_rounds,
     score |-> new_score(gs, round_result),
     bomb_used |-> new_bomb_used(gs, user_move, bot_move),
     history |-> Append(gs.history,
                        history_record(gs, user_move, bot_move, round_result)),
     game_over |-> IF gs.round + 1 >= gs.max_rounds THEN TRUE ELSE gs.game_over]

\* update_game_state assigning the flags from this round's moves alone
update_game_state_flags_assigned(gs, user_move, bot_move, round_result) ==
    [round |-> gs.round + 1,
     max_rounds |-> gs.max_rounds,
     score |-> new_score(gs, round_result),
     bomb_used |-> [user |-> user_move = "bomb", bot |-> bot_move = "bomb"],
     history |-> Append(gs.history,
                        history_record(gs, user_move, bot_move, round_result)),
     game_over |-> IF gs.round + 1 > gs.max_rounds THEN TRUE ELSE gs.game_over]

\* update_game_state computing game_over afresh on every call from the
\* round it was given
update_game_state_stale_round(gs, user_move, bot_move, round_result) ==
    [round |-> gs.round + 1,
     max_rounds |-> gs.max_rounds,
     score |-> new_score(gs, round_result),
     bomb_used |-> new_bomb_used(gs, user_move, bot_move),
     history |-> Append(gs.history,
                        history_record(gs, user_move, bot_move, round_result)),
     game_over |-> gs.round > gs.max_rounds]

update_game_state(gs, user_move, bot_move, round_result) ==
    [round |-> gs.round + 1,
     max_rounds |-> gs.max_rounds,
     score |-> new_score(gs, round_result),
     bomb_used |-> new_bomb_used(gs, user_move, bot_move),
     history |-> Append(gs.history,
                        history_record(gs, user_move, bot_move, round_result)),
     game_over |-> IF gs.round + 1 > gs.max_rounds THEN TRUE ELSE gs.game_over]

-----------------------------------------------------------------------------
(* agent.py *)

\* the moves generate_bot_move may return: random.choice over available_moves
generate_bot_move(gs) ==
    IF gs.bomb_used.bot THEN VALID_MOVES \ {"bomb"} ELSE VALID_MOVES

\* the match-level result with >= for >: equal scores announce the user
format_final_result_ties_to_user(gs) ==
    IF gs.score.user >= gs.score.bot THEN "user"
    ELSE IF gs.score.bot > gs.score.user THEN "bot"
    ELSE "draw"

\* the match-level result _format_final_result announces
format_final_result(gs) ==
    IF gs.score.user > gs.score.bot THEN "user"
    ELSE IF gs.score.bot > gs.score.user THEN "bot"
    ELSE "draw"

\* the facts _format_round_response renders, gs being the state after the turn
format_round_response(gs, round_num, user_move, bot_move, round_result, validation_result) ==
    [kind |-> "round",
     round_num |-> round_num,
     error |-> validation_result.error,
     you |-> IF ~validation_result.valid THEN "INVALID INPUT" ELSE user_move,
     bot |-> bot_move,
     reason |-> round_result.reason,
     winner |-> round_result.winner,
     score |-> gs.score,
     final |-> IF gs.game_over THEN format_final_result(gs) ELSE NoneValue,
     next_round |-> IF gs.game_over THEN 0 ELSE gs.round]

\* what process_turn returns without playing a turn
rejection(kind) ==
    [kind |-> kind, round_num |-> 0, error |-> NoneValue, you |-> NoneValue,
     bot |-> NoneValue, reason |-> NoneValue, winner |-> NoneValue,
     score |-> [user |-> 0, bot |-> 0], final |-> NoneValue, next_round |-> 0]

\* the orchestrator's phase: not started, in progress, game over
phase(gs, started) ==
    IF ~started THEN "not_started"
    ELSE IF gs.game_over THEN "game_over"
    ELSE "in_progress"

\* main.py not running
main_idle == [pc |-> "idle", event |-> "none", line |-> <<>>]

\* no objects
heap_empty == [objects |-> <<>>, state |-> 0, new_state |-> 0]

\* GameRefereeAgent.__init__
Init ==
    /\ game_state = initialize_game_state
    /\ game_started = FALSE
    /\ response = rejection("none")
    /\ last_op = "init"
    /\ last_input = <<>>
    /\ turn_calls = 0
    /\ tools_invoked = <<>>
    /\ called_from = "none"
    /\ main = main_idle
    /\ heap = heap_empty
    /\ state = initialize_game_state
    /\ n_applied = 0
    /\ call = [fn |-> "none"]

\* start_game that sets the flag and keeps a game state it already has
start_game_keeps_state ==
    /\ game_state' = game_state
    /\ game_started' = TRUE
    /\ response' = rejection("welcome")
    /\ last_op' = "start_game"
    /\ called_from' = phase(game_state, game_started)
    /\ turn_calls' = 0
    /\ tools_invoked' = <<>>
    /\ UNCHANGED <<last_input, harness_vars>>

start_game ==
    /\ game_state' = initialize_game_state
    /\ game_started' = TRUE
    /\ response' = rejection("welcome")
    /\ last_op' = "start_game"
    /\ called_from' = phase(game_state, game_started)
    /\ turn_calls' = 0
    /\ tools_invoked' = <<>>
    /\ UNCHANGED <<last_input, harness_vars>>

\* process_turn past its two guards, re-prompting on invalid input instead of
\* playing the round
play_turn_reprompt(user_input) ==
    LET current_round == game_state.round
        validation_result == validate_move(user_input, game_state)
        user_move == IF ~validation_result.valid
                     THEN NoneValue
                     ELSE validation_result.normalized_move
    IN  \E bot_move \in generate_bot_move(game_state) :
            IF user_move = NoneValue
            THEN /\ UNCHANGED game_state
                 /\ tools_invoked' = <<"validate_move">>
                 /\ response' = rejection("round")
            ELSE LET round_result == resolve_round(user_move, bot_move)
                     new_state == update_game_state(game_state, user_move,
                                                    bot_move, round_result)
                 IN  /\ game_state' = new_state
                     /\ tools_invoked' =
                            <<"validate_move", "resolve_round", "update_game_state">>
                     /\ response' = format_round_response(
                            new_state, current_round, user_move, bot_move,
                            round_result, validation_result)

\* process_turn past its two guards, passing the moves to resolve_round in
\* the wrong order
play_turn_swapped_moves(user_input) ==
    LET current_round == game_state.round
        validation_result == validate_move(user_input, game_state)
        user_move == IF ~validation_result.valid
                     THEN NoneValue
                     ELSE validation_result.normalized_move
    IN  \E bot_move \in generate_bot_move(game_state) :
            LET invalid == user_move = NoneValue
                round_result ==
                    IF invalid
                    THEN [winner |-> "bot",
                          reason |-> "Invalid input - bot wins by default"]
                    ELSE resolve_round(bot_move, user_move)
                new_state == update_game_state(game_state, user_move, bot_move,
                                               round_result)
            IN  /\ game_state' = new_state
                /\ tools_invoked' =
                       IF invalid
                       THEN <<"validate_move", "update_game_state">>
                       ELSE <<"validate_move", "resolve_round", "update_game_state">>
                /\ response' = format_round_response(
                       new_state, current_round, user_move, bot_move,
                       round_result, validation_result)

\* process_turn past its two guards (agent.py lines 96-139)
play_turn(user_input) ==
    LET current_round == game_state.round
        validation_result == validate_move(user_input, game_state)
        user_move == IF ~validation_result.valid
                     THEN NoneValue
                     ELSE validation_result.normalized_move
    IN  \E bot_move \in generate_bot_move(game_state) :
            LET invalid == user_move = NoneValue
                round_result ==
                    IF invalid
                    THEN [winner |-> "bot",
                          reason |-> "Invalid input - bot wins by default"]
                    ELSE resolve_round(user_move, bot_move)
                new_state == update_game_state(game_state, user_move, bot_move,
                                               round_result)
            IN  /\ game_state' = new_state
                /\ tools_invoked' =
                       IF invalid
                       THEN <<"validate_move", "update_game_state">>
                       ELSE <<"validate_move", "resolve_round", "update_game_state">>
                /\ response' = format_round_response(
                       new_state, current_round, user_move, bot_move,
                       round_result, validation_result)

\* process_turn without the guard against playing after game over
process_turn_no_over_guard(user_input) ==
    /\ turn_calls < MaxTurnCalls
    /\ last_op' = "process_turn"
    /\ called_from' = phase(game_state, game_started)
    /\ last_input' = user_input
    /\ turn_calls' = turn_calls + 1
    /\ UNCHANGED <<game_started, harness_vars>>
    /\ IF ~game_started
       THEN /\ response' = rejection("not_started")
            /\ tools_invoked' = <<>>
            /\ UNCHANGED game_state
       ELSE play_turn(user_input)

\* process_turn without the guard against playing before start_game
process_turn_no_start_guard(user_input) ==
    /\ turn_calls < MaxTurnCalls
    /\ last_op' = "process_turn"
    /\ called_from' = phase(game_state, game_started)
    /\ last_input' = user_input
    /\ turn_calls' = turn_calls + 1
    /\ UNCHANGED <<game_started, harness_vars>>
    /\ IF game_state.game_over
       THEN /\ response' = rejection("game_over")
            /\ tools_invoked' = <<>>
            /\ UNCHANGED game_state
       ELSE play_turn(user_input)

process_turn(user_input) ==
    /\ turn_calls < MaxTurnCalls
    /\ last_op' = "process_turn"
    /\ called_from' = phase(game_state, game_started)
    /\ last_input' = user_input
    /\ turn_calls' = turn_calls + 1
    /\ UNCHANGED <<game_started, harness_vars>>
    /\ IF ~game_started
       THEN /\ response' = rejection("not_started")
            /\ tools_invoked' = <<>>
            /\ UNCHANGED game_state
       ELSE IF game_state.game_over
       THEN /\ response' = rejection("game_over")
            /\ tools_invoked' = <<>>
            /\ UNCHANGED game_state
       ELSE play_turn(user_input)

Next ==
    \/ start_game /\ UNCHANGED main
    \/ \E user_input \in RawInputs : process_turn(user_input) /\ UNCHANGED main

Spec == Init /\ [][Next]_vars

-----------------------------------------------------------------------------
(* The tools called directly, as test_game.py calls them *)

\* the user moves update_game_state is given: None, a bomb, and a move that is neither
UpdateUserMoves == {NoneValue, "rock", "bomb"}

\* the bot moves update_game_state is given
UpdateBotMoves == {"rock", "bomb"}

\* the round results update_game_state is given
RoundResults == {[winner |-> w, reason |-> "because"] : w \in {"user", "bot", "draw"}}

InitUpdate ==
    /\ game_state = initialize_game_state
    /\ game_started = FALSE
    /\ response = rejection("none")
    /\ last_op = "init"
    /\ last_input = <<>>
    /\ turn_calls = 0
    /\ tools_invoked = <<>>
    /\ called_from = "none"
    /\ main = main_idle
    /\ heap = heap_empty
    /\ state = initialize_game_state
    /\ n_applied = 0
    /\ call = [fn |-> "none"]

\* new_state = update_game_state(state, user_move, bot_move, round_result)
ApplyUpdate ==
    /\ n_applied < MaxApply
    /\ \E user_move \in UpdateUserMoves, bot_move \in UpdateBotMoves,
          round_result \in RoundResults :
          /\ state' = update_game_state(state, user_move, bot_move, round_result)
          /\ call' = [fn |-> "update_game_state", user_move |-> user_move,
                      bot_move |-> bot_move, round_result |-> round_result]
    /\ n_applied' = n_applied + 1
    /\ UNCHANGED <<agent_vars, main, heap>>

NextUpdate == ApplyUpdate

SpecUpdate == InitUpdate /\ [][NextUpdate]_vars

\* the outcome the referee gives a round
referee_result(user_move, bot_move) ==
    IF user_move = NoneValue
    THEN [winner |-> "bot", reason |-> "Invalid input - bot wins by default"]
    ELSE resolve_round(user_move, bot_move)

\* the states validate_move is called on: a fresh one and those one round later
ToolStates ==
    {initialize_game_state} \cup
    { update_game_state(initialize_game_state, user_move, bot_move,
                        referee_result(user_move, bot_move)) :
        user_move \in VALID_MOVES \cup {NoneValue}, bot_move \in VALID_MOVES }

InitTools ==
    /\ game_state = initialize_game_state
    /\ game_started = FALSE
    /\ response = rejection("none")
    /\ last_op = "init"
    /\ last_input = <<>>
    /\ turn_calls = 0
    /\ tools_invoked = <<>>
    /\ called_from = "none"
    /\ main = main_idle
    /\ heap = heap_empty
    /\ state \in ToolStates
    /\ n_applied = Len(state.history)
    /\ call = [fn |-> "none"]

\* result = validate_move(move, state)
CallValidate ==
    /\ \E move \in RawInputs :
          call' = [fn |-> "validate_move", move |-> move,
                   result |-> validate_move(move, state)]
    /\ UNCHANGED <<agent_vars, main, heap, state, n_applied>>

\* result = resolve_round(user_move, bot_move)
CallResolve ==
    /\ \E user_move \in VALID_MOVES, bot_move \in VALID_MOVES :
          call' = [fn |-> "resolve_round", user_move |-> user_move,
                   bot_move |-> bot_move,
                   result |-> resolve_round(user_move, bot_move)]
    /\ UNCHANGED <<agent_vars, main, heap, state, n_applied>>

NextTools == CallValidate \/ CallResolve

SpecTools == InitTools /\ [][NextTools]_vars

-----------------------------------------------------------------------------
(* update_game_state and validate_move on objects with identity *)
(* An object is named by its index in heap.objects.  A GameState object     *)
(* holds references to its score dict, its bomb_used dict and its history   *)
(* list; the records of the list are held in the list.                      *)

\* update_game_state calls the object-level harness makes
MaxHeapApply == 2

\* the objects of initialize_game_state(), allocated after objs
new_game_state(objs) ==
    LET n == Len(objs) IN
    [objects |-> objs \o
        << [round |-> 1, max_rounds |-> max_rounds, score |-> n + 2,
            bomb_used |-> n + 3, history |-> n + 4, game_over |-> FALSE],
           [user |-> 0, bot |-> 0],
           [user |-> FALSE, bot |-> FALSE],
           <<>> >>,
     ref |-> n + 1]

\* copy.copy: a new GameState object holding the same three containers
shallow_copy(objs, ref) ==
    [objects |-> Append(objs, objs[ref]), ref |-> Len(objs) + 1]

\* copy.deepcopy: a new GameState object with copies of its three containers
deepcopy(objs, ref) ==
    LET n == Len(objs)
        o == objs[ref]
    IN  [objects |-> objs \o
            << [o EXCEPT !.score = n + 2, !.bomb_used = n + 3, !.history = n + 4],
               objs[o.score],
               objs[o.bomb_used],
               objs[o.history] >>,
         ref |-> n + 1]

\* the GameState value an object and its containers hold
value_of(objs, ref) ==
    LET o == objs[ref] IN
    [round |-> o.round,
     max_rounds |-> o.max_rounds,
     score |-> objs[o.score],
     bomb_used |-> objs[o.bomb_used],
     history |-> objs[o.history],
     game_over |-> o.game_over]

\* update_game_state, statement by statement, on the objects
update_game_state_objects(objs, ref, user_move, bot_move, round_result) ==
    LET copied == deepcopy(objs, ref)
        new == copied.ref
        o0 == copied.objects
        s == o0[new].score
        b == o0[new].bomb_used
        h == o0[new].history
        o1 == IF round_result.winner = "user"
              THEN [o0 EXCEPT ![s].user = @ + 1]
              ELSE IF round_result.winner = "bot"
              THEN [o0 EXCEPT ![s].bot = @ + 1]
              ELSE o0
        o2 == IF user_move = "bomb" THEN [o1 EXCEPT ![b].user = TRUE] ELSE o1
        o3 == IF bot_move = "bomb" THEN [o2 EXCEPT ![b].bot = TRUE] ELSE o2
        o4 == [o3 EXCEPT ![h] = Append(@,
                  [round |-> o3[new].round,
                   user_move |-> IF user_move # NoneValue THEN user_move
                                                          ELSE "INVALID",
                   bot_move |-> bot_move,
                   winner |-> round_result.winner,
                   reason |-> round_result.reason])]
        o5 == [o4 EXCEPT ![new].round = @ + 1]
        o6 == IF o5[new].round > o5[new].max_rounds
              THEN [o5 EXCEPT ![new].game_over = TRUE]
              ELSE o5
    IN  [objects |-> o6, ref |-> new]

\* validate_move on the objects: it reads bomb_used and assigns to nothing
validate_move_objects(objs, move, ref) ==
    [objects |-> objs, result |-> validate_move(move, value_of(objs, ref))]

InitHeap ==
    /\ game_state = initialize_game_state
    /\ game_started = FALSE
    /\ response = rejection("none")
    /\ last_op = "init"
    /\ last_input = <<>>
    /\ turn_calls = 0
    /\ tools_invoked = <<>>
    /\ called_from = "none"
    /\ main = main_idle
    /\ heap = [objects |-> new_game_state(<<>>).objects,
               state |-> new_game_state(<<>>).ref,
               new_state |-> new_game_state(<<>>).ref]
    /\ state = initialize_game_state
    /\ n_applied = 0
    /\ call = [fn |-> "none"]

\* new_state = update_game_state(new_state, user_move, bot_move, round_result)
HeapUpdate ==
    /\ n_applied < MaxHeapApply
    /\ \E user_move \in UpdateUserMoves, bot_move \in UpdateBotMoves,
          round_result \in RoundResults :
          LET done == update_game_state_objects(heap.objects, heap.new_state,
                                                user_move, bot_move, round_result)
          IN  /\ heap' = [objects |-> done.objects, state |-> heap.new_state,
                          new_state |-> done.ref]
              /\ state' = value_of(done.objects, done.ref)
              /\ call' = [fn |-> "update_game_state", user_move |-> user_move,
                          bot_move |-> bot_move, round_result |-> round_result]
    /\ n_applied' = n_applied + 1
    /\ UNCHANGED <<agent_vars, main>>

\* result = validate_move(move, new_state)
HeapValidate ==
    /\ \E move \in RawInputs :
          LET done == validate_move_objects(heap.objects, move, heap.new_state)
          IN  /\ heap' = [heap EXCEPT !.objects = done.objects]
              /\ call' = [fn |-> "validate_move", move |-> move,
                          result |-> done.result]
    /\ UNCHANGED <<agent_vars, main, state, n_applied>>

NextHeap == HeapUpdate \/ HeapValidate

SpecHeap == InitHeap /\ [][NextHeap]_vars

-----------------------------------------------------------------------------
(* main.py *)

\* the lines input() returns
CliLines ==
    { <<"r","o","c","k">>,
      <<" ","P","a","p","e","r">>,
      <<"b","o","m","b">>,
      <<"l","a","s","e","r">>,
      <<>>,
      <<" "," ">>,
      <<"q","u","i","t">>,
      <<"E","x","i","t"," ">>,
      <<" ","Q">> }

\* the special commands that leave the loop
ExitCommands == {"quit", "exit", "q"}

\* the lines that are neither empty after trimming nor an exit command
MoveLines ==
    {line \in CliLines :
        /\ str_strip(line) # <<>>
        /\ text(str_lower(str_strip(line))) \notin ExitCommands}

\* main() up to the loop: the agent is constructed
InitMain ==
    /\ game_state = initialize_game_state
    /\ game_started = FALSE
    /\ response = rejection("none")
    /\ last_op = "init"
    /\ last_input = <<>>
    /\ turn_calls = 0
    /\ tools_invoked = <<>>
    /\ called_from = "none"
    /\ main = [pc |-> "start", event |-> "none", line |-> <<>>]
    /\ heap = heap_empty
    /\ state = initialize_game_state
    /\ n_applied = 0
    /\ call = [fn |-> "none"]

\* print(agent.start_game())
main_start ==
    /\ main.pc = "start"
    /\ start_game
    /\ main' = [pc |-> "loop", event |-> "start", line |-> <<>>]

\* one pass of the loop body that forwards an empty line to process_turn
main_loop_body_no_empty_check(line) ==
    /\ main.pc = "loop"
    /\ ~game_state.game_over
    /\ LET user_input == str_strip(line) IN
       IF text(str_lower(user_input)) \in ExitCommands
       THEN /\ main' = [pc |-> "done", event |-> "line", line |-> line]
            /\ UNCHANGED <<agent_vars, harness_vars>>
       ELSE /\ main' = [pc |-> "loop", event |-> "line", line |-> line]
            /\ process_turn(user_input)

\* one pass of the loop body in which input() returns line
main_loop_body(line) ==
    /\ main.pc = "loop"
    /\ ~game_state.game_over
    /\ LET user_input == str_strip(line) IN
       IF text(str_lower(user_input)) \in ExitCommands
       THEN /\ main' = [pc |-> "done", event |-> "line", line |-> line]
            /\ UNCHANGED <<agent_vars, harness_vars>>
       ELSE IF user_input = <<>>
       THEN /\ main' = [pc |-> "loop", event |-> "line", line |-> line]
            /\ UNCHANGED <<agent_vars, harness_vars>>
       ELSE /\ main' = [pc |-> "loop", event |-> "line", line |-> line]
            /\ process_turn(user_input)

\* input() raises KeyboardInterrupt: break
main_interrupt ==
    /\ main.pc = "loop"
    /\ ~game_state.game_over
    /\ main' = [main EXCEPT !.pc = "done", !.event = "interrupt"]
    /\ UNCHANGED <<agent_vars, harness_vars>>

\* input() raises another exception (end of input): the loop goes round again
main_input_error ==
    /\ main.pc = "loop"
    /\ ~game_state.game_over
    /\ main' = [main EXCEPT !.event = "error"]
    /\ UNCHANGED <<agent_vars, harness_vars>>

\* the while condition fails: the loop is left
main_loop_end ==
    /\ main.pc = "loop"
    /\ game_state.game_over
    /\ main' = [main EXCEPT !.pc = "done", !.event = "loop_end"]
    /\ UNCHANGED <<agent_vars, harness_vars>>

NextMain ==
    \/ main_start
    \/ \E line \in CliLines : main_loop_body(line)
    \/ main_interrupt
    \/ main_input_error
    \/ main_loop_end

SpecMain == InitMain /\ [][NextMain]_vars

\* main() with a user who supplies only lines that are moves
NextMainMoves ==
    \/ main_start
    \/ \E line \in MoveLines : main_loop_body(line)
    \/ main_loop_end

\* a pass of the loop body can be made: the while condition holds
LoopBodyEnabled ==
    main.pc = "loop" /\ ~game_state.game_over /\ turn_calls < MaxTurnCalls

\* The program keeps running and input() keeps returning a line.  The last
\* conjunct is weak fairness of the loop body with its enabling condition
\* written out.
SpecMainMoves ==
    /\ InitMain
    /\ [][NextMainMoves]_vars
    /\ WF_vars(main_start)
    /\ WF_vars(main_loop_end)
    /\ (<>[]LoopBodyEnabled
          => []<><<\E line \in MoveLines : main_loop_body(line)>>_vars)

-----------------------------------------------------------------------------
(* Properties *)

\* the trimmed, lowercased form of a raw input
normal_form(user_input) == text(str_lower(str_strip(user_input)))

\* this step is a process_turn call
TurnStep == last_op' = "process_turn" /\ turn_calls' = turn_calls + 1

\* the elements of a sequence
Range(seq) == {seq[i] : i \in DOMAIN seq}

\* the rounds of history in which the given side played the given move
RoundsWith(history, side, move) ==
    {i \in DOMAIN history :
        IF side = "user" THEN history[i].user_move = move
                         ELSE history[i].bot_move = move}

\* C1: a process_turn call made while game_over is true returns the game-over
\* rejection and leaves the whole game state (score, round, bomb_used, history,
\* game_over) as it was; no tool is invoked, so no bot move is recorded.
C1_TurnAfterGameOverIsNoOp ==
    [][(TurnStep /\ game_state.game_over)
         => /\ response'.kind = "game_over"
            /\ game_state' = game_state
            /\ game_started' = game_started
            /\ tools_invoked' = <<>>]_vars

C1_Witness ==
    /\ last_op = "process_turn"
    /\ response.kind = "game_over"
    /\ game_state.game_over
    /\ Len(game_state.history) = max_rounds
    /\ turn_calls = max_rounds + 1

\* C2: once three process_turn calls have followed a start_game, whatever the
\* inputs and the bot moves, game_over is true and round is 4; the fourth call
\* changes nothing and returns the game-over rejection.
C2_ThreeTurnsEndTheGame ==
    /\ []((game_started /\ turn_calls >= 3)
            => (game_state.game_over /\ game_state.round = 4))
    /\ [][(game_started /\ turn_calls = 3 /\ TurnStep)
            => (game_state' = game_state /\ response'.kind = "game_over")]_vars

C2_Witness ==
    /\ game_started
    /\ turn_calls = 4
    /\ last_op = "process_turn"
    /\ response.kind = "game_over"
    /\ game_state.round = 4
    /\ \E i \in DOMAIN game_state.history :
          game_state.history[i].user_move = "INVALID"

\* C3: in the history of one game each player has played bomb at most once:
\* validate_move rejects every input that normalizes to bomb once
\* bomb_used.user is true, and generate_bot_move does not return bomb once
\* bomb_used.bot is true.
C3_BombAtMostOncePerPlayer ==
    /\ Cardinality(RoundsWith(game_state.history, "user", "bomb")) <= 1
    /\ Cardinality(RoundsWith(game_state.history, "bot", "bomb")) <= 1
    /\ game_state.bomb_used.user =>
          \A user_input \in RawInputs :
             normal_form(user_input) = "bomb"
                => ~validate_move(user_input, game_state).valid
    /\ game_state.bomb_used.bot => "bomb" \notin generate_bot_move(game_state)

C3_Witness ==
    /\ last_op = "process_turn"
    /\ turn_calls = 3
    /\ Len(game_state.history) = 3
    /\ game_state.history[1].user_move = "bomb"
    /\ game_state.history[2].bot_move = "bomb"
    /\ normal_form(last_input) = "bomb"
    /\ game_state.history[3].user_move = "INVALID"

\* C4: after N update_game_state calls on a fresh state, history has N records,
\* round is 1 + N, and game_over is true exactly when N >= max_rounds.
C4_UpdateCountsRounds ==
    /\ Len(state.history) = n_applied
    /\ state.round = 1 + n_applied
    /\ state.game_over <=> (n_applied >= max_rounds)

C4_Witness ==
    /\ n_applied = max_rounds + 1
    /\ state.round = max_rounds + 2
    /\ state.game_over
    /\ state.history[1].user_move = "INVALID"

C6_SecondBombIsInvalid ==
    [][(/\ TurnStep
        /\ game_started
        /\ ~game_state.game_over
        /\ game_state.bomb_used.user
        /\ normal_form(last_input') = "bomb")
         => /\ game_state'.round = game_state.round + 1
            /\ game_state'.score.bot = game_state.score.bot + 1
            /\ game_state'.score.user = game_state.score.user
            /\ Len(game_state'.history) = Len(game_state.history) + 1
            /\ game_state'.history[Len(game_state'.history)].user_move = "INVALID"
            /\ game_state'.history[Len(game_state'.history)].winner = "bot"
            /\ game_state'.bomb_used.user]_vars

C6_Witness ==
    /\ last_op = "process_turn"
    /\ turn_calls = 2
    /\ Len(game_state.history) = 2
    /\ game_state.history[1].user_move = "bomb"
    /\ normal_form(last_input) = "bomb"
    /\ game_state.history[2].user_move = "INVALID"
    /\ game_state.history[2].winner = "bot"
    /\ game_state.bomb_used.user
    /\ response.error = "You have already used your bomb! Choose: rock, paper, or scissors"

\* C7: a bomb_used flag that is true stays true: update_game_state keeps it
\* for every user move (None included), bot move and round result, and no
\* process_turn call of a game clears it.
C7_BombFlagsMonotone ==
    /\ [](\A user_move \in VALID_MOVES \cup {NoneValue}, bot_move \in VALID_MOVES,
            round_result \in RoundResults, side \in {"user", "bot"} :
            game_state.bomb_used[side]
               => update_game_state(game_state, user_move, bot_move,
                                    round_result).bomb_used[side])
    /\ [][TurnStep =>
            \A side \in {"user", "bot"} :
               game_state.bomb_used[side] => game_state'.bomb_used[side]]_vars

C7_Witness ==
    /\ Len(game_state.history) = 3
    /\ game_state.history[1].user_move = "bomb"
    /\ game_state.history[1].bot_move = "bomb"
    /\ game_state.history[3].user_move = "INVALID"
    /\ game_state.bomb_used.user
    /\ game_state.bomb_used.bot

\* C8: resolve_round gives user when the user alone plays bomb, bot when the
\* bot alone plays bomb, and draw when both play bomb or both play the same
\* non-bomb move.
C8_BombAndEqualMoves ==
    call.fn = "resolve_round" =>
        /\ (call.user_move = "bomb" /\ call.bot_move # "bomb")
              => call.result.winner = "user"
        /\ (call.user_move # "bomb" /\ call.bot_move = "bomb")
              => call.result.winner = "bot"
        /\ call.user_move = call.bot_move => call.result.winner = "draw"

C8_Witness ==
    /\ call.fn = "resolve_round"
    /\ call.user_move = "bomb"
    /\ call.bot_move = "bomb"
    /\ call.result.winner = "draw"

\* rock beats scissors, scissors beats paper, paper beats rock
Beats == {<<"rock", "scissors">>, <<"scissors", "paper">>, <<"paper", "rock">>}

\* C9: for two different non-bomb moves resolve_round never gives draw, the
\* user wins exactly when the user's move beats the bot's and the bot wins
\* exactly when the bot's move beats the user's, and swapping the moves swaps
\* the winner.
C9_CyclicRelationDecides ==
    (/\ call.fn = "resolve_round"
     /\ call.user_move # "bomb"
     /\ call.bot_move # "bomb"
     /\ call.user_move # call.bot_move)
      => /\ call.result.winner # "draw"
         /\ call.result.winner = "user"
               <=> <<call.user_move, call.bot_move>> \in Beats
         /\ call.result.winner = "bot"
               <=> <<call.bot_move, call.user_move>> \in Beats
         /\ call.result.winner = "user"
               <=> resolve_round(call.bot_move, call.user_move).winner = "bot"

C9_Witness ==
    /\ call.fn = "resolve_round"
    /\ call.user_move = "paper"
    /\ call.bot_move = "rock"
    /\ call.result.winner = "user"

\* C10: validate_move answers valid with normalized_move the trimmed,
\* lowercased input exactly when that form is one of the four moves and is not
\* a bomb asked for after bomb_used.user became true; otherwise it answers
\* invalid with normalized_move None and an error.
C10_ValidateMoveContract ==
    call.fn = "validate_move" =>
        LET form == normal_form(call.move)
            accepted == /\ form \in {"rock", "paper", "scissors", "bomb"}
                        /\ ~(form = "bomb" /\ state.bomb_used.user)
        IN  /\ call.result.valid <=> accepted
            /\ accepted => call.result.normalized_move = form
            /\ ~accepted => /\ call.result.normalized_move = NoneValue
                            /\ call.result.error # NoneValue

C10_Witness ==
    /\ call.fn = "validate_move"
    /\ call.move = <<" ", " ", "S", "c", "i", "s", "s", "o", "r", "s", " ", " ">>
    /\ call.result.valid
    /\ call.result.normalized_move = "scissors"

\* the records of history with the given winner
RoundsWonBy(history, winner) == {i \in DOMAIN history : history[i].winner = winner}

\* a fresh game state, field by field
FreshState ==
    [round |-> 1, max_rounds |-> 3, score |-> [user |-> 0, bot |-> 0],
     bomb_used |-> [user |-> FALSE, bot |-> FALSE], history |-> <<>>,
     game_over |-> FALSE]

\* C11: update_game_state adds 1 to score.user alone when the winner is user,
\* 1 to score.bot alone when the winner is bot, and nothing on a draw; so no
\* process_turn call lowers a score or raises the two scores together by more
\* than 1.
C11_ScoreRule ==
    /\ [](\A user_move \in VALID_MOVES \cup {NoneValue}, bot_move \in VALID_MOVES,
            round_result \in RoundResults :
            LET after == update_game_state(game_state, user_move, bot_move,
                                           round_result).score
                before == game_state.score
            IN  /\ round_result.winner = "user" =>
                      (after.user = before.user + 1 /\ after.bot = before.bot)
                /\ round_result.winner = "bot" =>
                      (after.bot = before.bot + 1 /\ after.user = before.user)
                /\ round_result.winner = "draw" => after = before)
    /\ [][TurnStep =>
            /\ game_state'.score.user >= game_state.score.user
            /\ game_state'.score.bot >= game_state.score.bot
            /\ (game_state'.score.user + game_state'.score.bot)
                  - (game_state.score.user + game_state.score.bot) <= 1]_vars

C11_Witness ==
    /\ Len(game_state.history) = 3
    /\ game_state.history[1].winner = "user"
    /\ game_state.history[1].user_move = "rock"
    /\ game_state.history[1].bot_move = "scissors"
    /\ game_state.history[2].winner = "draw"
    /\ game_state.history[3].winner = "bot"
    /\ game_state.score = [user |-> 1, bot |-> 1]

\* C12: in every state the agent reaches, round lies between 1 and
\* max_rounds + 1, max_rounds is 3, and game_over is true exactly when round
\* exceeds max_rounds.
C12_RoundRange ==
    /\ game_state.max_rounds = 3
    /\ 1 <= game_state.round
    /\ game_state.round <= game_state.max_rounds + 1
    /\ game_state.game_over <=> (game_state.round > game_state.max_rounds)

C12_Witness ==
    /\ game_state.round = 4
    /\ game_state.game_over
    /\ last_op = "process_turn"
    /\ response.kind = "game_over"

\* C13: start_game, called before any start, in mid-game or after game over,
\* leaves a fresh state (round 1, scores 0, bomb flags false, empty history,
\* not over) and game_started true; the next process_turn call is played, and
\* a bomb is again valid for the user and available to the bot.
C13_StartGameResets ==
    /\ [][last_op' = "start_game" =>
            (game_state' = FreshState /\ game_started')]_vars
    /\ [](last_op = "start_game" =>
            /\ validate_move(<<"b", "o", "m", "b">>, game_state).valid
            /\ "bomb" \in generate_bot_move(game_state))
    /\ [][(last_op = "start_game" /\ TurnStep) =>
            (response'.kind = "round" /\ Len(game_state'.history) = 1)]_vars

C13_Witness ==
    /\ last_op = "start_game"
    /\ called_from = "game_over"
    /\ game_started
    /\ game_state = FreshState

\* C14: a process_turn call made before start_game was ever called returns the
\* not-started message and changes nothing: round, history, scores and bomb
\* flags are as they were, whatever the input.
C14_TurnBeforeStartIsNoOp ==
    [][(TurnStep /\ ~game_started)
         => /\ response'.kind = "not_started"
            /\ game_state' = game_state
            /\ ~game_started'
            /\ tools_invoked' = <<>>]_vars

C14_Witness ==
    /\ last_op = "process_turn"
    /\ called_from = "not_started"
    /\ ~game_started
    /\ response.kind = "not_started"
    /\ normal_form(last_input) = "bomb"
    /\ game_state = FreshState

\* C15: the match result announced with the turn that ends the game is user
\* exactly when score.user > score.bot, bot exactly when score.bot >
\* score.user, and draw exactly when the scores are equal; a turn that does
\* not end the game announces none.
C15_MatchResultFromScores ==
    (last_op = "process_turn" /\ response.kind = "round") =>
        IF game_state.game_over
        THEN /\ response.final \in {"user", "bot", "draw"}
             /\ response.final = "user"
                   <=> game_state.score.user > game_state.score.bot
             /\ response.final = "bot"
                   <=> game_state.score.bot > game_state.score.user
             /\ response.final = "draw"
                   <=> game_state.score.user = game_state.score.bot
        ELSE response.final = NoneValue

C15_Witness ==
    /\ last_op = "process_turn"
    /\ response.kind = "round"
    /\ game_state.game_over
    /\ game_state.score = [user |-> 1, bot |-> 1]
    /\ response.final = "draw"

\* C17: the i-th history record has round i; a process_turn call keeps the
\* records already there and, when it plays a round, appends one whose
\* user_move is "INVALID" exactly when validate_move rejected the input.
C17_HistoryAppendOnly ==
    /\ [](\A i \in DOMAIN game_state.history : game_state.history[i].round = i)
    /\ [][TurnStep =>
            /\ Len(game_state'.history) >= Len(game_state.history)
            /\ SubSeq(game_state'.history, 1, Len(game_state.history))
                  = game_state.history]_vars
    /\ [][(TurnStep /\ response'.kind = "round") =>
            /\ Len(game_state'.history) = Len(game_state.history) + 1
            /\ (game_state'.history[Len(game_state'.history)].user_move = "INVALID")
                  <=> ~validate_move(last_input', game_state).valid]_vars

C17_Witness ==
    /\ Len(game_state.history) = 3
    /\ game_state.history[1].user_move = "bomb"
    /\ game_state.history[2].user_move = "INVALID"
    /\ game_state.history[2].round = 2
    /\ game_state.history[3].user_move = "paper"
    /\ game_state.history[3].round = 3

\* C20: the scores are the numbers of history records won by each side, so
\* score.user + score.bot <= len(history) = round - 1 <= 3.
C20_ScoresMatchHistory ==
    /\ game_state.score.user
          = Cardinality(RoundsWonBy(game_state.history, "user"))
    /\ game_state.score.bot
          = Cardinality(RoundsWonBy(game_state.history, "bot"))
    /\ game_state.score.user + game_state.score.bot <= Len(game_state.history)
    /\ Len(game_state.history) = game_state.round - 1
    /\ game_state.round - 1 <= 3

C20_Witness ==
    /\ Len(game_state.history) = 3
    /\ game_state.history[1].winner = "draw"
    /\ game_state.history[2].winner = "bot"
    /\ game_state.history[2].user_move = "INVALID"
    /\ game_state.history[3].winner = "user"
    /\ game_state.score = [user |-> 1, bot |-> 1]

\* the containers a GameState object refers to
containers_of(objs, ref) ==
    {objs[ref].score, objs[ref].bomb_used, objs[ref].history}

\* C16: update_game_state returns a new GameState object whose score,
\* bomb_used and history containers are its own, and leaves every object that
\* existed before the call, the state passed in and its containers among
\* them, as it was; the value returned is the one the rules give.
\* validate_move leaves every object as it was.
C16_InputStateUntouched ==
    /\ [][(n_applied' = n_applied + 1) =>
            /\ heap'.state = heap.new_state
            /\ \A id \in 1..Len(heap.objects) :
                  heap'.objects[id] = heap.objects[id]
            /\ value_of(heap'.objects, heap'.state)
                  = value_of(heap.objects, heap.new_state)
            /\ heap'.new_state \notin 1..Len(heap.objects)
            /\ containers_of(heap'.objects, heap'.new_state)
                  \cap (1..Len(heap.objects)) = {}
            /\ value_of(heap'.objects, heap'.new_state)
                  = update_game_state(value_of(heap.objects, heap.new_state),
                                      call'.user_move, call'.bot_move,
                                      call'.round_result)]_vars
    /\ [][(call'.fn = "validate_move") => heap' = heap]_vars

C16_Witness ==
    /\ n_applied = 2
    /\ call.fn = "validate_move"
    /\ heap.state # heap.new_state
    /\ value_of(heap.objects, 1) = FreshState
    /\ value_of(heap.objects, heap.state).score = [user |-> 1, bot |-> 0]
    /\ value_of(heap.objects, heap.state).bomb_used = [user |-> TRUE, bot |-> FALSE]
    /\ value_of(heap.objects, heap.new_state).score = [user |-> 1, bot |-> 1]
    /\ value_of(heap.objects, heap.new_state).bomb_used = [user |-> TRUE, bot |-> TRUE]
    /\ Len(value_of(heap.objects, heap.new_state).history) = 2

\* C18: a pass of the loop whose line is empty after trimming leaves the game
\* state as it was, makes no process_turn call and stays in the loop; a pass
\* whose line is quit, exit or q in any letter case leaves the game state as
\* it was and ends the loop.
C18_EmptyAndExitLines ==
    /\ [][(main'.event = "line" /\ str_strip(main'.line) = <<>>)
            => /\ game_state' = game_state
               /\ turn_calls' = turn_calls
               /\ last_op' = last_op
               /\ main'.pc = "loop"]_vars
    /\ [][(main'.event = "line"
             /\ normal_form(main'.line) \in {"quit", "exit", "q"})
            => /\ game_state' = game_state
               /\ turn_calls' = turn_calls
               /\ last_op' = last_op
               /\ main'.pc = "done"]_vars

C18_Witness ==
    /\ main.event = "line"
    /\ main.line = <<" ", " ">>
    /\ main.pc = "loop"
    /\ last_op = "process_turn"
    /\ turn_calls = 1
    /\ game_state.round = 2

\* C19: with a user who keeps supplying lines that are moves, the loop is
\* left with game_over true after exactly three process_turn calls, and every
\* process_turn call the loop makes is made on a state that is not over and
\* plays a round.
C19_LoopTerminates ==
    /\ <>(/\ main.pc = "done"
          /\ main.event = "loop_end"
          /\ game_state.game_over
          /\ turn_calls = 3)
    /\ [][TurnStep => (~game_state.game_over /\ response'.kind = "round")]_vars

C19_Witness ==
    /\ main.pc = "done"
    /\ main.event = "loop_end"
    /\ game_state.game_over
    /\ turn_calls = 3
    /\ Len(game_state.history) = 3

\* the winner the rules of the game give two valid moves
RulesWinner(user_move, bot_move) ==
    IF user_move = bot_move THEN "draw"
    ELSE IF user_move = "bomb" THEN "user"
    ELSE IF bot_move = "bomb" THEN "bot"
    ELSE IF <<user_move, bot_move>> \in Beats THEN "user"
    ELSE "bot"

\* C21: every history record of a game has the winner the rules give: the
\* winner resolve_round gives for its two moves when user_move is not
\* "INVALID", and bot when user_move is "INVALID", whatever the bot played.
C21_HistoryWinnersFollowRules ==
    \A i \in DOMAIN game_state.history :
        LET rec == game_state.history[i] IN
        /\ rec.bot_move \in {"rock", "paper", "scissors", "bomb"}
        /\ IF rec.user_move = "INVALID"
           THEN rec.winner = "bot"
           ELSE /\ rec.user_move \in {"rock", "paper", "scissors", "bomb"}
                /\ rec.winner = resolve_round(rec.user_move, rec.bot_move).winner
                /\ rec.winner = RulesWinner(rec.user_move, rec.bot_move)

C21_Witness ==
    /\ Len(game_state.history) = 3
    /\ game_state.history[1].user_move = "scissors"
    /\ game_state.history[1].bot_move = "paper"
    /\ game_state.history[1].winner = "user"
    /\ game_state.history[2].user_move = "INVALID"
    /\ game_state.history[2].bot_move = "bomb"
    /\ game_state.history[2].winner = "bot"
    /\ game_state.history[3].user_move = "bomb"
    /\ game_state.history[3].bot_move = "rock"
    /\ game_state.history[3].winner = "user"

\* C22: bomb_used.user is true exactly when the history of the current game
\* has a record with user_move "bomb", and bomb_used.bot exactly when it has
\* one with bot_move "bomb".
C22_BombFlagsMatchHistory ==
    /\ game_state.bomb_used.user
          <=> (RoundsWith(game_state.history, "user", "bomb") # {})
    /\ game_state.bomb_used.bot
          <=> (RoundsWith(game_state.history, "bot", "bomb") # {})

C22_Witness ==
    /\ Len(game_state.history) = 3
    /\ game_state.history[1].bot_move = "bomb"
    /\ game_state.history[2].user_move = "bomb"
    /\ game_state.history[3].user_move = "INVALID"
    /\ normal_form(last_input) = "bomb"
    /\ game_state.bomb_used = [user |-> TRUE, bot |-> TRUE]

\* C23: a played turn whose input validate_move rejects still records a move
\* drawn for the bot, and bomb_used.bot becomes true when that move is bomb;
\* such a turn leaves bomb_used.user as it was.
C23_InvalidTurnStillDrawsBotMove ==
    [][(/\ TurnStep
        /\ game_started
        /\ ~game_state.game_over
        /\ ~validate_move(last_input', game_state).valid)
         => /\ Len(game_state'.history) = Len(game_state.history) + 1
            /\ game_state'.history[Len(game_state'.history)].bot_move
                  \in generate_bot_move(game_state)
            /\ game_state'.bomb_used.bot
                  <=> \/ game_state.bomb_used.bot
                      \/ game_state'.history[Len(game_state'.history)].bot_move
                            = "bomb"
            /\ game_state'.bomb_used.user = game_state.bomb_used.user]_vars

\* an invalid first turn on which the bot's bomb was spent
C23_Witness ==
    /\ last_op = "process_turn"
    /\ Len(game_state.history) = 1
    /\ game_state.history[1].user_move = "INVALID"
    /\ game_state.history[1].bot_move = "bomb"
    /\ game_state.history[1].winner = "bot"
    /\ game_state.history[1].reason = "Invalid input - bot wins by default"
    /\ game_state.bomb_used = [user |-> FALSE, bot |-> TRUE]

====
